---- MODULE Spec2Model ----
(***************************************************************************)
(* Contact API of jaxsim (src/jaxsim/api/contact.py): collidable point     *)
(* kinematics, soft-contact dynamics, link contact detection and the       *)
(* estimator of soft-contact parameters.                                   *)
(*                                                                         *)
(* Numbers are integers or exact rationals [num, den]; 3D vectors are      *)
(* triples, 6D vectors are [linear; angular] sextuples.                    *)
(***************************************************************************)
EXTENDS Integers, Sequences, FiniteSets, TLC

VARIABLES model, data, ret, calls

vars == <<model, data, ret, calls>>

(***************************************************************************)
(* Bounds of the explored inputs.                                          *)
(***************************************************************************)
NPoints == 2
MaxZ == 1
MaxFilterLen == 1
MaxV == 1
MaxM == 1
MaxC == 1
MaxMass == 2
MaxN == 2
MaxZeta == 1
MaxPen == 2
MaxCom == 2

Span(n) == (0 - n)..n

(***************************************************************************)
(* Small algebra.                                                          *)
(***************************************************************************)
Zero3 == <<0, 0, 0>>
Zero6 == <<0, 0, 0, 0, 0, 0>>

Range(s) == {s[i] : i \in DOMAIN s}

SeqsUpTo(S, n) == UNION {[1..k -> S] : k \in 0..n}

(***************************************************************************)
(* The model: link names (index i is link_names[i+1]), the link of every   *)
(* collidable point (contact_parameters.body) and the terrain.             *)
(***************************************************************************)
LinkNames == <<"base", "link1">>
GhostName == "ghost"

link_names_of(m) == m.link_names

number_of_links(m) == Len(m.link_names)

LinkIndices(m) == 0..(number_of_links(m) - 1)

\* Terrain capability: height(x, y) of a flat or a sloped (parametric) terrain.
Terrains == {[kind |-> "flat", h |-> 0, sx |-> 0], [kind |-> "parametric", h |-> 0, sx |-> 1]}

TerrainHeight(t, x, y) == t.h + t.sx * x

(***************************************************************************)
(* Vectors, rotations and exact rationals.                                 *)
(***************************************************************************)
Max(a, b) == IF a >= b THEN a ELSE b

\* Division rounding toward zero.
TruncDiv(a, b) == IF a >= 0 THEN a \div b ELSE 0 - ((0 - a) \div b)

\* Largest r with r*r <= n.
ISqrt(n) == CHOOSE r \in 0..n : r * r <= n /\ (r + 1) * (r + 1) > n

Dot(a, b) == a[1] * b[1] + a[2] * b[2] + a[3] * b[3]

Cross(a, b) == <<a[2] * b[3] - a[3] * b[2], a[3] * b[1] - a[1] * b[3], a[1] * b[2] - a[2] * b[1]>>

Add3(a, b) == <<a[1] + b[1], a[2] + b[2], a[3] + b[3]>>

Sub3(a, b) == <<a[1] - b[1], a[2] - b[2], a[3] - b[3]>>

MatVec(R, v) == <<Dot(R[1], v), Dot(R[2], v), Dot(R[3], v)>>

Transpose(R) == <<<<R[1][1], R[2][1], R[3][1]>>, <<R[1][2], R[2][2], R[3][2]>>, <<R[1][3], R[2][3], R[3][3]>>>>

Lin(f) == <<f[1], f[2], f[3]>>

Ang(f) == <<f[4], f[5], f[6]>>

Join6(l, a) == <<l[1], l[2], l[3], a[1], a[2], a[3]>>

I3 == <<<<1, 0, 0>>, <<0, 1, 0>>, <<0, 0, 1>>>>
Rz90 == <<<<0, 0 - 1, 0>>, <<1, 0, 0>>, <<0, 0, 1>>>>
Rx90 == <<<<1, 0, 0>>, <<0, 0, 0 - 1>>, <<0, 1, 0>>>>

Rat(n, d) == [num |-> n, den |-> d]

RatEq(a, b) == a.num * b.den = b.num * a.den

RatMul(a, b) == Rat(a.num * b.num, a.den * b.den)

(***************************************************************************)
(* Velocity representations and the conversion of 6D vectors between them  *)
(* (data.inertial_to_other_representation and its inverse).  transform is  *)
(* W_H_B = (R, p); the mixed frame B[W] keeps p and has the identity       *)
(* rotation.  Forces transform with the transposed adjoint.                *)
(***************************************************************************)
VelRepr == {"inertial", "body", "mixed"}

FrameOf(repr, transform) == IF repr = "mixed" THEN [R |-> I3, p |-> transform.p] ELSE transform

inertial_to_other_representation(array, other_representation, transform, is_force) ==
    IF other_representation = "inertial" THEN array
    ELSE LET H == FrameOf(other_representation, transform)
             Rt == Transpose(H.R)
         IN IF is_force
            THEN Join6(MatVec(Rt, Lin(array)), MatVec(Rt, Sub3(Ang(array), Cross(H.p, Lin(array)))))
            ELSE Join6(MatVec(Rt, Sub3(Lin(array), Cross(H.p, Ang(array)))), MatVec(Rt, Ang(array)))

other_representation_to_inertial(array, other_representation, transform, is_force) ==
    IF other_representation = "inertial" THEN array
    ELSE LET H == FrameOf(other_representation, transform)
             l == MatVec(H.R, Lin(array))
             a == MatVec(H.R, Ang(array))
         IN IF is_force
            THEN Join6(l, Add3(a, Cross(H.p, l)))
            ELSE Join6(Add3(l, Cross(H.p, a)), a)

\* convert(v, A, B): through the inertial representation.
convert(v, from_representation, to_representation, transform, is_force) ==
    inertial_to_other_representation(
        other_representation_to_inertial(v, from_representation, transform, is_force),
        to_representation, transform, is_force)

\* The context manager data.switch_velocity_representation: the data inside
\* the with-block, and the data once the block is left.
switch_velocity_representation(d, repr) == [d EXCEPT !.velocity_representation = repr]

restore_velocity_representation(d, before) == [d EXCEPT !.velocity_representation = before.velocity_representation]

(***************************************************************************)
(* Kinematics provider (jaxsim.rbda.collidable_points): world position and *)
(* velocity of every collidable point for the configuration held by the    *)
(* data.  It is a black box: the data carries its answer, and the log      *)
(* records the representation the data had when it was queried.            *)
(***************************************************************************)
Call(fn, d) == [fn |-> fn, repr |-> d.velocity_representation]

collidable_points_pos_vel(m, d) == <<d.W_p_Ci, d.W_v_Ci>>

(***************************************************************************)
(* collidable_point_kinematics: positions and velocities, computed with    *)
(* the data switched to the inertial representation.  Result: the returned *)
(* pair, the caller's data after the call and the providers queried.       *)
(***************************************************************************)
collidable_point_kinematics_NoRestore(m, d) ==
    LET inside == switch_velocity_representation(d, "inertial")
        pv == collidable_points_pos_vel(m, inside)
    IN [W_p_Ci |-> pv[1], W_v_Ci |-> pv[2], data |-> inside,
        calls |-> <<Call("collidable_points_pos_vel", inside)>>]

collidable_point_kinematics(m, d) ==
    LET inside == switch_velocity_representation(d, "inertial")
        pv == collidable_points_pos_vel(m, inside)
        after == restore_velocity_representation(inside, d)
    IN [W_p_Ci |-> pv[1], W_v_Ci |-> pv[2], data |-> after,
        calls |-> <<Call("collidable_points_pos_vel", inside)>>]

collidable_point_positions(m, d) ==
    LET k == collidable_point_kinematics(m, d)
    IN [val |-> k.W_p_Ci, data |-> k.data, calls |-> k.calls]

collidable_point_velocities(m, d) ==
    LET k == collidable_point_kinematics(m, d)
    IN [val |-> k.W_v_Ci, data |-> k.data, calls |-> k.calls]

(***************************************************************************)
(* Soft contact force model (jaxsim.rbda.SoftContacts.contact_model): the  *)
(* inertial 6D force on one point and the rate of its tangential           *)
(* deformation.  The terrain normal is +z.  The tangential force K*m is    *)
(* scaled by min(1, mu*f_n / (|K*m| + Eps)).                               *)
(***************************************************************************)
Eps == 1

contact_model(sc, position, velocity, deformation) ==
    LET K == sc.parameters.K
        D == sc.parameters.D
        mu == sc.parameters.mu
        delta == TerrainHeight(sc.terrain, position[1], position[2]) - position[3]
        active == delta > 0
        f_n == Max(0, K * delta - D * velocity[3])
        ft1 == K * deformation[1]
        ft2 == K * deformation[2]
        norm == ISqrt(ft1 * ft1 + ft2 * ft2)
        snum == mu.num * f_n
        sden == mu.den * (norm + Eps)
        slip == snum < sden
        f_t == IF slip THEN <<TruncDiv(ft1 * snum, sden), TruncDiv(ft2 * snum, sden)>>
               ELSE <<ft1, ft2>>
        v_t == <<velocity[1], velocity[2], 0>>
        bleed == <<TruncDiv(deformation[1] * (sden - snum), sden),
                   TruncDiv(deformation[2] * (sden - snum), sden), 0>>
    IN IF active
       THEN [force |-> <<f_t[1], f_t[2], f_n, 0, 0, 0>>,
             m_dot |-> IF slip THEN Sub3(v_t, bleed) ELSE v_t]
       ELSE [force |-> Zero6, m_dot |-> Sub3(Zero3, deformation)]

(***************************************************************************)
(* collidable_point_dynamics: the 6D force on every collidable point in    *)
(* the active representation and the deformation rates.                    *)
(***************************************************************************)
\* SoftContacts(parameters=data.soft_contacts_params, terrain=model.terrain)
SoftContacts_UnitFriction(m, d) ==
    [parameters |-> [d.soft_contacts_params EXCEPT !.mu = Rat(1, 1)], terrain |-> m.terrain]

SoftContacts(m, d) == [parameters |-> d.soft_contacts_params, terrain |-> m.terrain]

\* The arguments the contact model is mapped over, for point i.
ContactModelArgs_PositionVelocitySwapped(W_p_Ci, W_v_Ci, d, i) ==
    <<W_v_Ci[i], W_p_Ci[i], d.state.soft_contacts.tangential_deformation[i]>>

ContactModelArgs(W_p_Ci, W_v_Ci, d, i) ==
    <<W_p_Ci[i], W_v_Ci[i], d.state.soft_contacts.tangential_deformation[i]>>

\* is_force of the conversion of the forces.
dynamics_is_force_Velocity == FALSE

dynamics_is_force == TRUE

collidable_point_dynamics(m, d) ==
    LET k == collidable_point_kinematics(m, d)
        dd == k.data
        soft_contacts == SoftContacts(m, dd)
        cm == [i \in DOMAIN k.W_p_Ci |->
                 LET a == ContactModelArgs(k.W_p_Ci, k.W_v_Ci, dd, i)
                 IN contact_model(soft_contacts, a[1], a[2], a[3])]
        W_f_Ci == [i \in DOMAIN cm |-> cm[i].force]
        CW_m_dot == [i \in DOMAIN cm |-> cm[i].m_dot]
        f_Ci == [i \in DOMAIN cm |->
                   inertial_to_other_representation(
                       W_f_Ci[i], dd.velocity_representation, dd.base_transform, dynamics_is_force)]
    IN [val |-> [f_Ci |-> f_Ci, CW_m_dot |-> CW_m_dot], W_f_Ci |-> W_f_Ci,
        data |-> dd, calls |-> k.calls \o <<Call("terrain.height", dd)>>]

(***************************************************************************)
(* in_contact: whether each link touches the terrain.  link_names is       *)
(* [given, names]: given is FALSE for None.                                *)
(***************************************************************************)
NoLinkNames == [given |-> FALSE, names |-> <<>>]

\* set(link_names) - set(model.link_names())
UnknownLinkNames_Ignored(m, names) == {}

UnknownLinkNames(m, names) == Range(names) \ Range(link_names_of(m))

\* W_p_Ci[:, 2] <= terrain_height
BelowTerrain_Strict(z, terrain_height) == z < terrain_height

BelowTerrain(z, terrain_height) == z <= terrain_height

\* The link indices the reduction is mapped over.
LinksEvaluated(m, names) == LinkIndices(m)

in_contact(m, d, link_names) ==
    LET names == IF link_names.given THEN link_names.names ELSE link_names_of(m)
    IN IF UnknownLinkNames(m, names) # {}
       THEN [err |-> "ValueError", val |-> <<>>, links |-> {}, data |-> d, calls |-> <<>>]
       ELSE LET k == collidable_point_positions(m, d)
                W_p_Ci == k.val
                below_terrain == [i \in DOMAIN W_p_Ci |->
                    BelowTerrain(W_p_Ci[i][3], TerrainHeight(m.terrain, W_p_Ci[i][1], W_p_Ci[i][2]))]
                links == LinksEvaluated(m, names)
                links_in_contact == [n \in 1..Cardinality(links) |->
                    LET link_index == CHOOSE l \in links : Cardinality({j \in links : j < l}) = n - 1
                    IN \E i \in DOMAIN W_p_Ci :
                          IF m.kin_dyn_parameters.contact_parameters.body[i] = link_index
                          THEN below_terrain[i] ELSE FALSE]
            IN [err |-> "", val |-> links_in_contact, links |-> links, data |-> k.data,
                calls |-> k.calls \o <<Call("terrain.height", k.data)>>]

(***************************************************************************)
(* estimate_good_soft_contacts_parameters.                                 *)
(***************************************************************************)
\* SoftContactsParams(): the parameters of freshly built data.
DefaultSoftContactsParams == [K |-> 1, D |-> 1, mu |-> Rat(1, 2)]

\* JaxSimModelData.build(model): the data of the zero configuration.  The
\* model carries the providers' answers for it (com_z0, W_pz_C0).
ZeroData(m) ==
    [velocity_representation |-> "inertial",
     base_transform |-> [R |-> I3, p |-> Zero3],
     W_p_Ci |-> [i \in DOMAIN m.W_pz_C0 |-> <<0, 0, m.W_pz_C0[i]>>],
     W_v_Ci |-> [i \in DOMAIN m.W_pz_C0 |-> Zero3],
     state |-> [soft_contacts |-> [tangential_deformation |-> [i \in DOMAIN m.W_pz_C0 |-> Zero3]]],
     soft_contacts_params |-> DefaultSoftContactsParams]

\* js.com.com_position(model, data)[2] at the zero configuration.
com_position_z(m, d) == m.com_z0

MinOf(s) == CHOOSE x \in Range(s) : \A y \in Range(s) : x <= y

\* 2 * CoM height for a fixed base, 2 * (CoM height - lowest point) otherwise.
estimate_model_height_IgnoresBase(m) ==
    [val |-> 2 * com_position_z(m, ZeroData(m)), calls |-> <<Call("com_position", ZeroData(m))>>]

estimate_model_height(m) ==
    LET zero_data == ZeroData(m)
        W_pz_CoM == com_position_z(m, zero_data)
    IN IF m.floating_base
       THEN LET k == collidable_point_positions(m, zero_data)
                W_pz_C == [i \in DOMAIN k.val |-> k.val[i][3]]
            IN [val |-> 2 * (W_pz_CoM - MinOf(W_pz_C)),
                calls |-> <<Call("com_position", zero_data)>> \o k.calls]
       ELSE [val |-> 2 * W_pz_CoM, calls |-> <<Call("com_position", zero_data)>>]

\* 0.005, as the fraction 5 / 1000.
HeightFractionNum == 5
HeightFractionDen == 1000

\* max_penetration if given, else 0.005 * estimate_model_height(model).
MaxPenetration(m, max_penetration) ==
    IF max_penetration.given
    THEN [val |-> Rat(max_penetration.value, 1), calls |-> <<>>]
    ELSE LET h == estimate_model_height(m)
         IN [val |-> Rat(HeightFractionNum * h.val, HeightFractionDen), calls |-> h.calls]

\* The keyword arguments handed to build_default_from_jaxsim_model.
BuilderArgs_DefaultPoints(a, max_delta) ==
    [standard_gravity |-> a.standard_gravity,
     static_friction_coefficient |-> a.static_friction_coefficient,
     max_penetration |-> max_delta,
     number_of_active_collidable_points_steady_state |-> 1,
     damping_ratio |-> a.damping_ratio]

BuilderArgs_ClampedPoints(a, max_delta) ==
    [standard_gravity |-> a.standard_gravity,
     static_friction_coefficient |-> a.static_friction_coefficient,
     max_penetration |-> max_delta,
     number_of_active_collidable_points_steady_state |-> Max(1, a.number_of_active_collidable_points_steady_state),
     damping_ratio |-> a.damping_ratio]

BuilderArgs(a, max_delta) ==
    [standard_gravity |-> a.standard_gravity,
     static_friction_coefficient |-> a.static_friction_coefficient,
     max_penetration |-> max_delta,
     number_of_active_collidable_points_steady_state |-> a.number_of_active_collidable_points_steady_state,
     damping_ratio |-> a.damping_ratio]

\* Total mass of the model (Mass Properties Provider).
total_mass(m) == m.mass

\* SoftContactsParams.build_default_from_jaxsim_model: K = (m*g/n) / max
\* penetration, D = damping_ratio * 2 * sqrt(K * m/n) kept as coef * sqrt(radicand).
build_default_from_jaxsim_model(m, b) ==
    LET mass == total_mass(m)
        n == b.number_of_active_collidable_points_steady_state
        K == Rat(mass * b.standard_gravity * b.max_penetration.den, n * b.max_penetration.num)
        effective_mass_per_point == Rat(mass, n)
    IN IF mass <= 0 \/ n <= 0
       THEN [err |-> "InvalidModelError", val |-> <<>>]
       ELSE [err |-> "",
             val |-> [K |-> K,
                      D |-> [coef |-> 2 * b.damping_ratio, radicand |-> RatMul(K, effective_mass_per_point)],
                      mu |-> b.static_friction_coefficient]]

estimate_good_soft_contacts_parameters(m, a) ==
    LET max_delta == MaxPenetration(m, a.max_penetration)
        sc_parameters == build_default_from_jaxsim_model(m, BuilderArgs(a, max_delta.val))
    IN [err |-> sc_parameters.err, val |-> sc_parameters.val, max_delta |-> max_delta.val,
        calls |-> max_delta.calls]

(***************************************************************************)
(* States.                                                                 *)
(***************************************************************************)
Transforms ==
    {[R |-> I3, p |-> Zero3], [R |-> Rz90, p |-> <<1, 0, 0>>], [R |-> Rx90, p |-> <<0, 1, 1>>]}

ParamsSet ==
    {[K |-> 1, D |-> 1, mu |-> Rat(1, 2)], [K |-> 2, D |-> 1, mu |-> Rat(1, 1)],
     [K |-> 2, D |-> 0, mu |-> Rat(0, 1)]}

MakeModel(body, terrain, mass, floating_base, com_z0, W_pz_C0) ==
    [link_names |-> LinkNames,
     kin_dyn_parameters |-> [contact_parameters |-> [body |-> body]],
     terrain |-> terrain,
     mass |-> mass,
     floating_base |-> floating_base,
     com_z0 |-> com_z0,
     W_pz_C0 |-> W_pz_C0]

MakeData(repr, transform, W_p_Ci, W_v_Ci, deformation, params) ==
    [velocity_representation |-> repr,
     base_transform |-> transform,
     W_p_Ci |-> W_p_Ci,
     W_v_Ci |-> W_v_Ci,
     state |-> [soft_contacts |-> [tangential_deformation |-> deformation]],
     soft_contacts_params |-> params]

NoReturn == [op |-> "none"]

Deformations == {<<x, y, 0>> : x \in Span(MaxM), y \in Span(MaxM)}

Velocities == {<<x, 0, z>> : x \in 0..1, z \in Span(MaxV)}

\* One collidable point on link 1, any state of motion and deformation.
Init ==
    /\ \E terrain \in Terrains :
          model = MakeModel(<<1>>, terrain, 1, TRUE, 1, <<0>>)
    /\ \E repr \in VelRepr, transform \in Transforms, z \in Span(MaxZ),
          v \in Velocities, m \in Deformations, params \in ParamsSet :
          data = MakeData(repr, transform, <<(<<1, 0, z>>)>>, <<v>>, <<m>>, params)
    /\ ret = NoReturn
    /\ calls = <<>>

\* NPoints collidable points at rest, on any links, at any height.
InitContact ==
    /\ \E body \in [1..NPoints -> 0..(Len(LinkNames) - 1)], terrain \in Terrains :
          model = MakeModel(body, terrain, 1, TRUE, 1, [i \in 1..NPoints |-> 0])
    /\ \E W_p_Ci \in [1..NPoints -> {<<x, 0, z>> : x \in 0..1, z \in Span(MaxZ)}] :
          data = MakeData("body", [R |-> I3, p |-> Zero3], W_p_Ci, [i \in 1..NPoints |-> Zero3],
                          [i \in 1..NPoints |-> Zero3], DefaultSoftContactsParams)
    /\ ret = NoReturn
    /\ calls = <<>>

\* One penetrating point, any base transform.
InitConvert ==
    /\ model = MakeModel(<<1>>, [kind |-> "flat", h |-> 0, sx |-> 0], 1, TRUE, 1, <<0>>)
    /\ \E repr \in VelRepr, transform \in Transforms, m \in {Zero3, <<1, 0, 0>>} :
          data = MakeData(repr, transform, <<(<<0, 0, 0 - 1>>)>>, <<Zero3>>, <<m>>,
                          [K |-> 2, D |-> 1, mu |-> Rat(1, 1)])
    /\ ret = NoReturn
    /\ calls = <<>>

\* Any mass (also none), base kind and zero-configuration heights.
InitEstimator ==
    /\ \E mass \in (0 - 1)..MaxMass, floating_base \in BOOLEAN, com_z0 \in 1..MaxCom, pz \in 0..1 :
          model = MakeModel(<<0, 1>>, [kind |-> "flat", h |-> 0, sx |-> 0], mass, floating_base,
                            com_z0, <<pz, 1>>)
    /\ data = ZeroData(model)
    /\ ret = NoReturn
    /\ calls = <<>>

(***************************************************************************)
(* Operations.                                                             *)
(***************************************************************************)
CollidablePointKinematics ==
    LET k == collidable_point_kinematics(model, data)
    IN /\ ret' = [op |-> "collidable_point_kinematics", err |-> "", val |-> <<k.W_p_Ci, k.W_v_Ci>>]
       /\ data' = k.data
       /\ calls' = k.calls
       /\ UNCHANGED model

CollidablePointPositions ==
    LET k == collidable_point_positions(model, data)
    IN /\ ret' = [op |-> "collidable_point_positions", err |-> "", val |-> k.val]
       /\ data' = k.data
       /\ calls' = k.calls
       /\ UNCHANGED model

CollidablePointVelocities ==
    LET k == collidable_point_velocities(model, data)
    IN /\ ret' = [op |-> "collidable_point_velocities", err |-> "", val |-> k.val]
       /\ data' = k.data
       /\ calls' = k.calls
       /\ UNCHANGED model

CollidablePointDynamics ==
    LET r == collidable_point_dynamics(model, data)
    IN /\ ret' = [op |-> "collidable_point_dynamics", err |-> "", val |-> r.val, W_f_Ci |-> r.W_f_Ci]
       /\ data' = r.data
       /\ calls' = r.calls
       /\ UNCHANGED model

InContact(link_names) ==
    LET r == in_contact(model, data, link_names)
    IN /\ ret' = [op |-> "in_contact", args |-> link_names, err |-> r.err, val |-> r.val,
                  links |-> r.links]
       /\ data' = r.data
       /\ calls' = r.calls
       /\ UNCHANGED model

InContactAllLinks == InContact(NoLinkNames)

LinkFilters ==
    {[given |-> TRUE, names |-> s] : s \in SeqsUpTo(Range(LinkNames) \cup {GhostName}, MaxFilterLen)}

InContactFiltered == \E link_names \in LinkFilters : InContact(link_names)

\* The caller's integrator: one explicit Euler step of the deformation with
\* the rate the last call of collidable_point_dynamics returned.
Integrate ==
    /\ ret.op = "collidable_point_dynamics"
    /\ LET m == data.state.soft_contacts.tangential_deformation
           next == [i \in DOMAIN m |-> Add3(m[i], ret.val.CW_m_dot[i])]
       IN /\ \A i \in DOMAIN m : next[i] \in Deformations
          /\ data' = [data EXCEPT !.state.soft_contacts.tangential_deformation = next]
    /\ ret' = [op |-> "integrate"]
    /\ calls' = <<>>
    /\ UNCHANGED model

\* The multiples of the basis vectors and of a vector with no zero entry.
Vectors6 ==
    {[k \in 1..6 |-> IF k = i THEN a ELSE 0] : i \in 1..6, a \in Span(MaxC)}
    \cup {[k \in 1..6 |-> a * k] : a \in Span(MaxC)}

Convert ==
    /\ \E v \in Vectors6, from \in VelRepr, to \in VelRepr, f \in BOOLEAN :
          ret' = [op |-> "convert",
                  args |-> [v |-> v, from |-> from, to |-> to, transform |-> data.base_transform, is_force |-> f],
                  val |-> convert(v, from, to, data.base_transform, f)]
    /\ calls' = <<>>
    /\ UNCHANGED <<model, data>>

EstimatorArgs ==
    [standard_gravity : {1, 10},
     static_friction_coefficient : {Rat(1, 2), Rat(1, 1)},
     number_of_active_collidable_points_steady_state : (0 - 1)..MaxN,
     damping_ratio : 0..MaxZeta,
     max_penetration : {[given |-> FALSE, value |-> 0]} \cup {[given |-> TRUE, value |-> x] : x \in 1..MaxPen}]

EstimateGoodSoftContactsParameters ==
    /\ \E a \in EstimatorArgs :
          LET r == estimate_good_soft_contacts_parameters(model, a)
          IN /\ ret' = [op |-> "estimate_good_soft_contacts_parameters", args |-> a, err |-> r.err,
                        val |-> r.val, max_delta |-> r.max_delta]
             /\ calls' = r.calls
    /\ UNCHANGED <<model, data>>

Next ==
    \/ CollidablePointKinematics
    \/ CollidablePointPositions
    \/ CollidablePointVelocities
    \/ CollidablePointDynamics
    \/ InContactAllLinks
    \/ Integrate

Spec == Init /\ [][Next]_vars

NextContact ==
    \/ InContactAllLinks
    \/ InContactFiltered

ContactSpec == InitContact /\ [][NextContact]_vars

NextConvert ==
    \/ Convert
    \/ CollidablePointDynamics

ConvertSpec == InitConvert /\ [][NextConvert]_vars

EstimatorSpec == InitEstimator /\ [][EstimateGoodSoftContactsParameters]_vars

(***************************************************************************)
(* Properties.                                                             *)
(***************************************************************************)
Body(i) == model.kin_dyn_parameters.contact_parameters.body[i]

PointIds == DOMAIN data.W_p_Ci

\* Penetration depth of point i: terrain height under it minus its height.
Depth(i) ==
    TerrainHeight(model.terrain, data.W_p_Ci[i][1], data.W_p_Ci[i][2]) - data.W_p_Ci[i][3]

Deformation(i) == data.state.soft_contacts.tangential_deformation[i]

InContactReturned == ret.op = "in_contact"

HasUnknownName == InContactReturned /\ \E n \in Range(ret.args.names) : n \notin Range(LinkNames)

\* C1: in_contact without a link filter returns one boolean per link of the
\* model, in link index order, and the entry of link l is true exactly when
\* a collidable point of link l has z <= terrain height (equality counts, a
\* link with no point is false).
C1_InContactPerLink ==
    (InContactReturned /\ ~ret.args.given) =>
        /\ ret.err = ""
        /\ DOMAIN ret.val = 1..number_of_links(model)
        /\ \A l \in LinkIndices(model) :
              ret.val[l + 1] <=> \E i \in PointIds : Body(i) = l /\ Depth(i) >= 0

C1_Witness ==
    /\ InContactReturned /\ ~ret.args.given
    /\ \E i \in PointIds : Depth(i) = 0 /\ ret.val[Body(i) + 1]
                           /\ \A j \in PointIds : Body(j) = Body(i) => Depth(j) <= 0
    /\ \E l \in LinkIndices(model) : ~ret.val[l + 1] /\ \A i \in PointIds : Body(i) # l

\* C2 as stated: a filter with a name that is no link of the model fails
\* with UnknownLinkError, before any kinematics or terrain query, and
\* returns nothing.
C2_UnknownLinkError ==
    HasUnknownName => ret.err = "UnknownLinkError" /\ ret.val = <<>> /\ calls = <<>>

\* C2 amended: a filter with a name that is no link of the model fails
\* with ValueError, before any kinematics or terrain query, and returns
\* nothing.
C2_ValueErrorBeforeAnyQuery ==
    HasUnknownName => ret.err = "ValueError" /\ ret.val = <<>> /\ calls = <<>>

C2_Witness == HasUnknownName /\ ret.err # "" /\ \E i \in PointIds : Depth(i) > 0

\* C3: with a valid filter the links considered are exactly the named
\* links, and with no filter all the links of the model.
C3_OnlyNamedLinksConsidered ==
    (InContactReturned /\ ret.err = "") =>
        ret.links = IF ret.args.given
                    THEN {l \in LinkIndices(model) : LinkNames[l + 1] \in Range(ret.args.names)}
                    ELSE LinkIndices(model)

DynamicsReturned == ret.op = "collidable_point_dynamics"

\* C4: a point with penetration depth <= 0 gets exactly the zero 6D force
\* from collidable_point_dynamics, whatever the parameters, its velocity,
\* its stored deformation and the active representation.
C4_InactiveZeroForce ==
    DynamicsReturned => \A i \in PointIds : Depth(i) <= 0 => ret.val.f_Ci[i] = Zero6

C4_Witness ==
    /\ DynamicsReturned
    /\ data.velocity_representation = "body"
    /\ data.base_transform.p # Zero3
    /\ \E i \in PointIds : /\ Depth(i) = 0
                           /\ Deformation(i) # Zero3
                           /\ data.W_v_Ci[i][3] < 0
                           /\ ret.val.f_Ci[i] = Zero6

\* Normal force of the parameters of the data on point i.
NormalForce(i) ==
    Max(0, data.soft_contacts_params.K * Depth(i) - data.soft_contacts_params.D * data.W_v_Ci[i][3])

\* C5: on every active point the inertial force of the contact model has
\* the normal part f_n = max(0, K*depth - D*v_z) >= 0 and a tangential part
\* of norm at most mu * f_n (squared, with mu = num/den), also when f_n = 0
\* and the deformation is not zero.
C5_FrictionCone ==
    DynamicsReturned =>
        \A i \in PointIds : Depth(i) > 0 =>
            LET f == ret.W_f_Ci[i]
                mu == data.soft_contacts_params.mu
            IN /\ NormalForce(i) >= 0
               /\ f[3] = NormalForce(i)
               /\ mu.den * mu.den * (f[1] * f[1] + f[2] * f[2])
                     <= (mu.num * NormalForce(i)) * (mu.num * NormalForce(i))

C5_Witness ==
    /\ DynamicsReturned
    /\ \E i \in PointIds : /\ Depth(i) > 0
                           /\ Deformation(i) # Zero3
                           /\ NormalForce(i) = 0
                           /\ ret.W_f_Ci[i] = Zero6

EstimatorReturned == ret.op = "estimate_good_soft_contacts_parameters"

PointsAtRest == ret.args.number_of_active_collidable_points_steady_state

\* C6: for mass m > 0, n >= 1 support points and max penetration > 0 the
\* estimator returns K with K * max penetration = m * g / n, damping
\* D = damping_ratio * 2 * sqrt(K * m / n) and the requested friction.
C6_EstimatedParameters ==
    (EstimatorReturned /\ ret.err = "" /\ ret.max_delta.num > 0) =>
        LET K == ret.val.K
            d == ret.max_delta
        IN /\ K.den # 0
           /\ K.num * d.num * PointsAtRest = model.mass * ret.args.standard_gravity * K.den * d.den
           /\ ret.val.D.coef = 2 * ret.args.damping_ratio
           /\ ret.val.D.radicand.den # 0
           /\ RatEq(ret.val.D.radicand, RatMul(K, Rat(model.mass, PointsAtRest)))
           /\ ret.val.mu = ret.args.static_friction_coefficient

C6_Witness ==
    /\ EstimatorReturned /\ ret.err = ""
    /\ model.mass = 2 /\ PointsAtRest = 2 /\ ret.args.damping_ratio = 1
    /\ ret.args.max_penetration.given
    /\ ret.val.K.num > 0 /\ ret.val.K.den > 0

C8_ConversionRoundTrip ==
    /\ ret.op = "convert" =>
          convert(ret.val, ret.args.to, ret.args.from, ret.args.transform, ret.args.is_force)
              = ret.args.v
    /\ DynamicsReturned =>
          \A i \in PointIds :
              other_representation_to_inertial(
                  ret.val.f_Ci[i], data.velocity_representation, data.base_transform, TRUE)
                  = ret.W_f_Ci[i]

C8_Witness ==
    /\ DynamicsReturned
    /\ data.velocity_representation = "body"
    /\ \E i \in PointIds : /\ Lin(ret.W_f_Ci[i]) # Zero3
                           /\ Ang(ret.val.f_Ci[i]) # Zero3
                           /\ Lin(ret.val.f_Ci[i]) # Lin(ret.W_f_Ci[i])

\* Model height of the zero configuration.
ModelHeight ==
    IF model.floating_base
    THEN 2 * (model.com_z0 - MinOf(model.W_pz_C0))
    ELSE 2 * model.com_z0

\* C9: without max_penetration the estimator uses 0.005 * model height of
\* the zero configuration (2 * (CoM - lowest point) for a floating base,
\* 2 * CoM for a fixed one); a given max_penetration is used unchanged and
\* no height is computed.
C9_DefaultMaxPenetration ==
    EstimatorReturned =>
        IF ret.args.max_penetration.given
        THEN ret.max_delta = Rat(ret.args.max_penetration.value, 1) /\ calls = <<>>
        ELSE /\ ret.max_delta.den # 0
             /\ ret.max_delta.num * 1000 = 5 * ModelHeight * ret.max_delta.den
             /\ calls # <<>>
             /\ calls[1].fn = "com_position"

C9_Witness ==
    /\ EstimatorReturned /\ ~ret.args.max_penetration.given
    /\ model.floating_base /\ MinOf(model.W_pz_C0) # 0
    /\ ret.max_delta.num > 0

ApiOps ==
    {"collidable_point_kinematics", "collidable_point_positions", "collidable_point_velocities",
     "collidable_point_dynamics", "in_contact"}

\* C10: a call of the kinematics, positions, velocities, dynamics or
\* in_contact function leaves the data as it was: same tangential
\* deformation, same active velocity representation.
C10_CallsLeaveDataUnchanged == [][ret'.op \in ApiOps => data' = data]_vars

C10_Witness ==
    /\ DynamicsReturned
    /\ data.velocity_representation = "body"
    /\ calls[1].repr = "inertial"
    /\ \E i \in PointIds : Deformation(i) # Zero3 /\ ret.val.CW_m_dot[i] # Zero3

====
